---- MODULE Spec2Model ----
(***************************************************************************)
(* A model of CustomProc.py, the IDA processor core of a custom VM:        *)
(* the instruction matcher (notify_ana), the control-flow resolver         *)
(* (notify_emu) and the operand / instruction renderers                    *)
(* (notify_out_operand, notify_out_insn), together with the two tables     *)
(* built from the instruction class list.                                  *)
(*                                                                         *)
(* Addresses are 0-based offsets into the byte stream.  Text output is a   *)
(* sequence of tokens, one per out_* call of the output context; Text      *)
(* joins the tokens into the line.                                         *)
(***************************************************************************)
EXTENDS Integers, Sequences, FiniteSets, TLC

VARIABLES
    instruction_class_list, \* ordered instruction definitions (class attribute)
    instruc,                \* host-visible (name, feature) table
    instruc_end,            \* len(instruc)
    instructions,           \* index -> definition map of the matcher
    reg_names,              \* register name table
    stream,                 \* the bytes of the host's address space
    named,                  \* addresses for which the host knows a name
    insn,                   \* the insn_t of the latest notify_ana call
    anaRet,                 \* return value of the latest notify_ana (0 is False)
    done,                   \* handlers that have run on the current insn
    crefs,                  \* add_cref calls of the latest notify_emu, in order
    emuRet,                 \* return value of the latest notify_emu
    outbuf,                 \* tokens in the output context's buffer
    line,                   \* tokens handed to the listing by flush_outbuf
    rendered,               \* operands passed to notify_out_operand, in order
    outRets,                \* return values of those notify_out_operand calls
    regLookups              \* indices used on reg_names by the latest render

vars == <<instruction_class_list, instruc, instruc_end, instructions, reg_names,
          stream, named, insn, anaRet, done, crefs, emuRet, outbuf, line,
          rendered, outRets, regLookups>>

----------------------------------------------------------------------------
(* Bounds of the model. *)

MaxDefs == 2
MaxSize == 2
MaxStream == 2
MaxOffset == 17

----------------------------------------------------------------------------
(* Constants of idaapi and of the instruction-set package, as the source   *)
(* uses them.                                                              *)

CF_STOP == 1
CF_CHG1 == 4
CF_USE1 == 256
CF_USE2 == 512
CF_JUMP == 16384

o_void == 0
o_reg == 1
o_mem == 2
o_displ == 4
o_imm == 5
o_near == 7
o_idpspec0 == 8

dt_byte == 0
dt_word == 1
dt_dword == 2
dt_qword == 7

fl_JN == 19
fl_F == 21

NONE_REG == 255

COLOR_ERROR == "COLOR_ERROR"

----------------------------------------------------------------------------
(* Helpers: Python's & on non-negative integers, hexadecimal, padding. *)

RECURSIVE BitAnd(_, _)
BitAnd(a, b) ==
    IF a = 0 \/ b = 0 THEN 0
    ELSE (a % 2) * (b % 2) + 2 * BitAnd(a \div 2, b \div 2)

HexDigits == <<"0", "1", "2", "3", "4", "5", "6", "7",
               "8", "9", "A", "B", "C", "D", "E", "F">>

RECURSIVE ToHex(_)
ToHex(n) ==
    IF n < 16 THEN HexDigits[n + 1]
    ELSE ToHex(n \div 16) \o HexDigits[(n % 16) + 1]

RECURSIVE Spaces(_)
Spaces(n) == IF n <= 0 THEN "" ELSE " " \o Spaces(n - 1)

RECURSIVE Text(_)
Text(toks) == IF toks = <<>> THEN "" ELSE Head(toks) \o Text(Tail(toks))

----------------------------------------------------------------------------
(* Operands (op_t): one record for every addressing mode. *)

Op(type, reg, value, addr, dtyp, sf1, sf2, sf3, sf4) ==
    [type |-> type, reg |-> reg, value |-> value, addr |-> addr, dtyp |-> dtyp,
     specflag1 |-> sf1, specflag2 |-> sf2, specflag3 |-> sf3, specflag4 |-> sf4]

VoidOp == Op(o_void, 0, 0, 0, 0, 0, 0, 0, 0)
ImmOp(v) == Op(o_imm, 0, v, 0, 0, 0, 0, 0, 0)
RegOp(r) == Op(o_reg, r, 0, 0, 0, 0, 0, 0, 0)
NearOp(a) == Op(o_near, 0, 0, a, 0, 0, 0, 0, 0)
MemOp(a) == Op(o_mem, 0, 0, a, 0, 0, 0, 0, 0)
DisplOp(base, index, off) == Op(o_displ, base, index, off, 0, 0, 0, 0, 0)
SumOp(dtyp, r1, r2, r3, r4, off) == Op(o_idpspec0, 0, off, 0, dtyp, r1, r2, r3, r4)

----------------------------------------------------------------------------
(* The two tables built from the instruction class list. *)

\* class body: instruc.append({'name': c.name, 'feature': c.feature})
build_instruc(list) ==
    [k \in 1..Len(list) |-> [name |-> list[k].name, feature |-> list[k].feature]]

\* a variant of init_instructions that numbers the list from its end
init_instructions_reversed(list) ==
    [idx \in 0..(Len(list) - 1) |-> list[Len(list) - idx]]

\* _init_instructions: self.instructions[idx] = ins, idx from enumerate (0-based)
init_instructions(list) ==
    [idx \in 0..(Len(list) - 1) |-> list[idx + 1]]

\* host: the feature / mnemonic of insn, read from instruc (instruc_start = 0)
get_canon_feature(i) == instruc[i.itype + 1].feature
get_canon_mnem(i) == instruc[i.itype + 1].name

----------------------------------------------------------------------------
(* Instruction matcher. *)

\* host: a byte outside the loaded stream reads as 0xFF
get_byte(ea) == IF ea + 1 \in DOMAIN stream THEN stream[ea + 1] ELSE 255

\* a variant of first_match in which a later match overwrites an earlier one
RECURSIVE last_match(_, _)
last_match(idx, opcode) ==
    IF idx \notin DOMAIN instructions THEN -1
    ELSE LET later == last_match(idx + 1, opcode)
         IN  IF later # -1 THEN later
             ELSE IF instructions[idx].opcode = opcode THEN idx
             ELSE -1

\* the for loop of notify_ana: the first index, in table order, whose opcode
\* matches; -1 when the loop falls through
RECURSIVE first_match(_, _)
first_match(idx, opcode) ==
    IF idx \notin DOMAIN instructions THEN -1
    ELSE IF instructions[idx].opcode = opcode THEN idx
    ELSE first_match(idx + 1, opcode)

\* the insn_t the host passes in: only ea is set
fresh_insn(ea) == [ea |-> ea, itype |-> 0, size |-> 0, ops |-> <<VoidOp, VoidOp>>]

\* a variant of notify_ana that refuses an instruction running past the stream
notify_ana_bounded(ea, decoded) ==
    LET opcode == get_byte(ea)
        idx == first_match(0, opcode)
    IN  IF idx = -1 \/ ea + instructions[idx].size > Len(stream)
        THEN [insn |-> fresh_insn(ea), ret |-> 0]
        ELSE [insn |-> [ea |-> ea, itype |-> idx,
                        size |-> instructions[idx].size, ops |-> decoded],
              ret |-> instructions[idx].size]

\* notify_ana; decoded is what the definition's emulate callback writes into
\* the operand slots.  The result is the insn and the return value (False = 0).
notify_ana(ea, decoded) ==
    LET opcode == get_byte(ea)
        idx == first_match(0, opcode)
    IN  IF idx = -1
        THEN [insn |-> fresh_insn(ea), ret |-> 0]
        ELSE [insn |-> [ea |-> ea, itype |-> idx,
                        size |-> instructions[idx].size, ops |-> decoded],
              ret |-> instructions[idx].size]

----------------------------------------------------------------------------
(* Control-flow resolver. *)

add_cref(i, to, type) == [from |-> i.ea, to |-> to, type |-> type]

\* a variant of notify_emu without the mnemonic test: every jump falls through
notify_emu_always_flow(i) ==
    LET ft == get_canon_feature(i)
        a == i.ops[1].addr
    IN  IF BitAnd(ft, CF_JUMP) # 0
        THEN <<add_cref(i, a, fl_JN), add_cref(i, i.ea + i.size, fl_F)>>
        ELSE IF BitAnd(ft, CF_STOP) = 0 /\ BitAnd(ft, CF_JUMP) = 0
        THEN <<add_cref(i, i.ea + i.size, fl_F)>>
        ELSE <<>>

\* a variant of notify_emu that applies the mnemonic test to every instruction
notify_emu_name_first(i) ==
    LET ft == get_canon_feature(i)
        a == i.ops[1].addr
        falls == get_canon_mnem(i) \notin {"jmp", "vm_jmp"}
    IN  IF BitAnd(ft, CF_JUMP) # 0
        THEN <<add_cref(i, a, fl_JN)>>
             \o (IF falls THEN <<add_cref(i, i.ea + i.size, fl_F)>> ELSE <<>>)
        ELSE IF BitAnd(ft, CF_STOP) = 0 /\ falls
        THEN <<add_cref(i, i.ea + i.size, fl_F)>>
        ELSE <<>>

\* a variant of notify_emu whose else branch does not test CF_STOP
notify_emu_no_stop(i) ==
    LET ft == get_canon_feature(i)
        a == i.ops[1].addr
    IN  IF BitAnd(ft, CF_JUMP) # 0
        THEN <<add_cref(i, a, fl_JN)>>
             \o (IF get_canon_mnem(i) \notin {"jmp", "vm_jmp"}
                 THEN <<add_cref(i, i.ea + i.size, fl_F)>>
                 ELSE <<>>)
        ELSE <<add_cref(i, i.ea + i.size, fl_F)>>

\* notify_emu: the add_cref calls, in order
notify_emu(i) ==
    LET ft == get_canon_feature(i)
        a == i.ops[1].addr
    IN  IF BitAnd(ft, CF_JUMP) # 0
        THEN <<add_cref(i, a, fl_JN)>>
             \o (IF get_canon_mnem(i) \notin {"jmp", "vm_jmp"}
                 THEN <<add_cref(i, i.ea + i.size, fl_F)>>
                 ELSE <<>>)
        ELSE IF BitAnd(ft, CF_STOP) = 0 /\ BitAnd(ft, CF_JUMP) = 0
        THEN <<add_cref(i, i.ea + i.size, fl_F)>>
        ELSE <<>>

----------------------------------------------------------------------------
(* Output context (outctx_t). *)

EmptyCtx == [buf |-> <<>>, lookups |-> {}, rendered |-> <<>>, rets |-> <<>>]

out_printf(ctx, s) == [ctx EXCEPT !.buf = Append(@, s)]

\* self.reg_names[idx] followed by out_register
out_register(ctx, idx) ==
    [ctx EXCEPT !.buf = Append(@, IF idx + 1 \in DOMAIN reg_names
                                  THEN reg_names[idx + 1] ELSE "<IndexError>"),
                !.lookups = @ \cup {idx}]

out_long(ctx, v) == out_printf(ctx, ToHex(v))

\* host: an immediate in the assembler's hexadecimal format
out_value(ctx, o) ==
    out_printf(ctx, IF o.value < 10 THEN ToHex(o.value) ELSE ToHex(o.value) \o "h")

out_tagon(ctx, color) == out_printf(ctx, "<" \o color \o ">")
out_tagoff(ctx, color) == out_printf(ctx, "</" \o color \o ">")

\* host: the name of an address, when it has one
name_of(addr) == "loc_" \o ToHex(addr)
out_name_expr_ok(addr) == addr \in named
out_name_expr(ctx, addr) ==
    IF out_name_expr_ok(addr) THEN out_printf(ctx, name_of(addr)) ELSE ctx

\* host: the mnemonic, padded to 8 columns with at least one space
out_mnem(ctx, i) ==
    LET m == get_canon_mnem(i)
    IN  out_printf(out_printf(ctx, m),
                   IF Len(m) < 8 THEN Spaces(8 - Len(m)) ELSE " ")

----------------------------------------------------------------------------
(* Operand renderer. *)

\* a variant of out_displ that never tests the index slot against NONE_REG
out_displ_no_sentinel(ctx, o) ==
    LET c1 == out_printf(out_register(out_printf(ctx, "["), o.reg), " + ")
        c2 == out_printf(out_register(c1, o.value), " + ")
    IN  out_printf(out_long(c2, o.addr), "]")

\* o_displ branch of notify_out_operand
out_displ(ctx, o) ==
    LET c1 == out_printf(out_register(out_printf(ctx, "["), o.reg), " + ")
        c2 == IF o.value # NONE_REG
              THEN out_printf(out_register(c1, o.value), " + ")
              ELSE c1
    IN  out_printf(out_long(c2, o.addr), "]")

\* a variant of out_direct that leaves the error colour open
out_direct_no_tagoff(ctx, o) ==
    IF out_name_expr_ok(o.addr)
    THEN out_name_expr(ctx, o.addr)
    ELSE out_long(out_tagon(ctx, COLOR_ERROR), o.addr)

\* o_near / o_mem branch of notify_out_operand
out_direct(ctx, o) ==
    IF out_name_expr_ok(o.addr)
    THEN out_name_expr(ctx, o.addr)
    ELSE out_tagoff(out_long(out_tagon(ctx, COLOR_ERROR), o.addr), COLOR_ERROR)

\* a variant of out_idpspec0 whose fourth slot is guarded by the third's test
out_idpspec0_copied_test(ctx, o) ==
    LET c0 == out_printf(ctx, IF o.dtyp = dt_byte THEN "byte ptr ["
                              ELSE IF o.dtyp = dt_word THEN "word ptr ["
                              ELSE IF o.dtyp = dt_dword THEN "dword ptr ["
                              ELSE "[")
        c1 == out_printf(out_register(c0, o.specflag1), " + ")
        c2 == IF o.specflag2 # NONE_REG
              THEN out_printf(out_register(c1, o.specflag2), " + ") ELSE c1
        c3 == IF o.specflag3 # NONE_REG
              THEN out_printf(out_register(c2, o.specflag3), " + ") ELSE c2
        c4 == IF o.specflag3 # NONE_REG
              THEN out_printf(out_register(c3, o.specflag4), " + ") ELSE c3
    IN  out_printf(out_long(c4, o.value), "]")

\* o_idpspec0 branch of notify_out_operand
out_idpspec0(ctx, o) ==
    LET c0 == out_printf(ctx, IF o.dtyp = dt_byte THEN "byte ptr ["
                              ELSE IF o.dtyp = dt_word THEN "word ptr ["
                              ELSE IF o.dtyp = dt_dword THEN "dword ptr ["
                              ELSE "[")
        c1 == out_printf(out_register(c0, o.specflag1), " + ")
        c2 == IF o.specflag2 # NONE_REG
              THEN out_printf(out_register(c1, o.specflag2), " + ") ELSE c1
        c3 == IF o.specflag3 # NONE_REG
              THEN out_printf(out_register(c2, o.specflag3), " + ") ELSE c2
        c4 == IF o.specflag4 # NONE_REG
              THEN out_printf(out_register(c3, o.specflag4), " + ") ELSE c3
    IN  out_printf(out_long(c4, o.value), "]")

\* notify_out_operand: the context after the call; it always returns True
notify_out_operand(ctx, o) ==
    LET c == IF o.type = o_imm THEN out_value(ctx, o)
             ELSE IF o.type = o_displ THEN out_displ(ctx, o)
             ELSE IF o.type = o_reg THEN out_register(ctx, o.reg)
             ELSE IF o.type \in {o_near, o_mem} THEN out_direct(ctx, o)
             ELSE IF o.type = o_idpspec0 THEN out_idpspec0(ctx, o)
             ELSE ctx
    IN  [c EXCEPT !.rendered = Append(@, o), !.rets = Append(@, TRUE)]

\* host: out_one_operand(n) hands operand n of the insn to notify_out_operand
out_one_operand(ctx, i, n) == notify_out_operand(ctx, i.ops[n + 1])

----------------------------------------------------------------------------
(* Instruction renderer. *)

\* notify_out_insn up to flush_outbuf: the context holding the line
notify_out_insn(i) ==
    LET ft == get_canon_feature(i)
        c0 == out_mnem(EmptyCtx, i)
        c1 == IF BitAnd(ft, CF_USE1) # 0 THEN out_one_operand(c0, i, 0) ELSE c0
        c2 == IF BitAnd(ft, CF_USE2) # 0
              THEN out_one_operand(out_printf(c1, ", "), i, 1)
              ELSE c1
    IN  c2

----------------------------------------------------------------------------
(* Inputs. *)

RegisterNames == <<"R0", "R1", "CS", "DS">>
RegIdx == 0..(Len(RegisterNames) - 1)
OptRegIdx == RegIdx \cup {NONE_REG}

Features ==
    {s + c + u1 + u2 + j : s \in {0, CF_STOP}, c \in {0, CF_CHG1},
                           u1 \in {0, CF_USE1}, u2 \in {0, CF_USE2},
                           j \in {0, CF_JUMP}}

Def(opcode, name, feature, size) ==
    [opcode |-> opcode, name |-> name, feature |-> feature, size |-> size]

\* definitions of the matcher runs: two opcodes, every size, two kinds
AnaDefs ==
    {Def(o, k[1], k[2], z) : o \in {16, 17},
                             k \in {<<"mov", CF_CHG1 + CF_USE1 + CF_USE2>>,
                                    <<"hlt", CF_STOP>>},
                             z \in 1..MaxSize}

AnaTables == UNION {[1..n -> AnaDefs] : n \in 0..MaxDefs}
AnaStreams == UNION {[1..n -> {16, 17, 255}] : n \in 1..MaxStream}
AnaDecoded == {<<VoidOp, VoidOp>>, <<ImmOp(5), VoidOp>>}

\* definitions of the pipeline runs: every mnemonic, feature set and size
PipeDefs ==
    {Def(16, m, f, z) : m \in {"jmp", "vm_jmp", "jz", "mov"},
                        f \in Features, z \in 1..MaxSize}
NopDef == Def(0, "nop", 0, 1)
PipeOps == {VoidOp, ImmOp(5), NearOp(16), MemOp(24)}

\* operands of the renderer runs
RenderOps ==
    {DisplOp(b, x, off) : b \in RegIdx, x \in OptRegIdx, off \in {0, 16, MaxOffset}}
    \cup {SumOp(d, r1, r2, r3, r4, off) :
            d \in {dt_byte, dt_word, dt_dword, dt_qword}, r1 \in RegIdx,
            r2 \in OptRegIdx, r3 \in OptRegIdx, r4 \in OptRegIdx,
            off \in {0, 16, MaxOffset}}
    \cup {NearOp(a) : a \in 0..MaxOffset} \cup {MemOp(a) : a \in 0..MaxOffset}
    \cup {ImmOp(v) : v \in 0..MaxOffset} \cup {RegOp(r) : r \in RegIdx}
    \cup {VoidOp}

----------------------------------------------------------------------------
(* Initial states: the object after the class body and __init__ have run. *)

Constructed(list) ==
    /\ instruction_class_list = list
    /\ instruc = build_instruc(list)
    /\ instruc_end = Len(build_instruc(list))
    /\ instructions = init_instructions(list)
    /\ reg_names = RegisterNames
    /\ insn = fresh_insn(0)
    /\ anaRet = 0
    /\ done = {}
    /\ crefs = <<>>
    /\ emuRet = FALSE
    /\ outbuf = <<>>
    /\ line = <<>>
    /\ rendered = <<>>
    /\ outRets = <<>>
    /\ regLookups = {}

InitAna ==
    /\ \E list \in AnaTables : Constructed(list)
    /\ stream \in AnaStreams
    /\ named = {}

Init ==
    /\ \E d \in PipeDefs : Constructed(<<NopDef, d>>)
    /\ stream = <<0, 16>>
    /\ named \in {{}, {16}}

InitOut ==
    /\ Constructed(<<NopDef>>)
    /\ stream = <<0>>
    /\ named \in {{}, {16}}

----------------------------------------------------------------------------
(* Actions: one per callback the host invokes. *)

tables == <<instruction_class_list, instruc, instruc_end, instructions,
            reg_names, stream, named>>

\* ev_ana_insn: the host passes a fresh insn_t and keeps what notify_ana returns
ev_ana_insn(ea, decoded) ==
    /\ LET r == notify_ana(ea, decoded)
       IN  insn' = r.insn /\ anaRet' = r.ret
    /\ done' = {"ana"}
    /\ crefs' = <<>>
    /\ emuRet' = FALSE
    /\ outbuf' = <<>>
    /\ line' = <<>>
    /\ rendered' = <<>>
    /\ outRets' = <<>>
    /\ regLookups' = {}
    /\ UNCHANGED tables

\* ev_emu_insn, on an instruction notify_ana decoded
ev_emu_insn ==
    /\ anaRet # 0
    /\ "emu" \notin done
    /\ crefs' = notify_emu(insn)
    /\ emuRet' = TRUE
    /\ done' = done \cup {"emu"}
    /\ UNCHANGED <<tables, insn, anaRet, outbuf, line, rendered, outRets, regLookups>>

\* ev_out_insn, on an instruction notify_ana decoded; flush_outbuf moves the
\* buffer to the listing
ev_out_insn ==
    /\ anaRet # 0
    /\ "out" \notin done
    /\ LET c == notify_out_insn(insn)
       IN  /\ line' = c.buf
           /\ rendered' = c.rendered
           /\ outRets' = c.rets
           /\ regLookups' = c.lookups
    /\ outbuf' = <<>>
    /\ done' = done \cup {"out"}
    /\ UNCHANGED <<tables, insn, anaRet, crefs, emuRet>>

\* ev_out_operand on its own: one operand into a fresh output context
ev_out_operand(o) ==
    /\ done = {}
    /\ LET c == notify_out_operand(EmptyCtx, o)
       IN  /\ outbuf' = c.buf
           /\ rendered' = c.rendered
           /\ outRets' = c.rets
           /\ regLookups' = c.lookups
    /\ done' = {"operand"}
    /\ UNCHANGED <<tables, insn, anaRet, crefs, emuRet, line>>

Analyze(decodedSet) ==
    \E ea \in 0..(Len(stream) - 1) : \E decoded \in decodedSet :
        ev_ana_insn(ea, decoded)

NextAna == Analyze(AnaDecoded)

\* the host analyses an address, emulates and prints the instruction (in
\* either order), and only then moves to the next address
Next ==
    \/ done \in {{}, {"ana", "emu", "out"}} /\ Analyze(PipeOps \X PipeOps)
    \/ ev_emu_insn
    \/ ev_out_insn

NextOut == \E o \in RenderOps : ev_out_operand(o)

SpecAna == InitAna /\ [][NextAna]_vars
Spec == Init /\ [][Next]_vars
SpecOut == InitOut /\ [][NextOut]_vars

----------------------------------------------------------------------------
(* Vocabulary of the properties, read off the class list and the operands  *)
(* rather than off the handlers.                                           *)

HasFlag(ft, flag) == (ft \div flag) % 2 = 1
DefOf(i) == instruction_class_list[i.itype + 1]
JumpEdge(i) == [from |-> i.ea, to |-> i.ops[1].addr, type |-> fl_JN]
FlowEdge(i) == [from |-> i.ea, to |-> i.ea + i.size, type |-> fl_F]

\* the hexadecimal numerals of 0 .. 31, written out
Numerals ==
    <<"0", "1", "2", "3", "4", "5", "6", "7", "8", "9", "A", "B", "C", "D",
      "E", "F", "10", "11", "12", "13", "14", "15", "16", "17", "18", "19",
      "1A", "1B", "1C", "1D", "1E", "1F">>
Hex(n) == Numerals[n + 1]

RegText(r) == RegisterNames[r + 1]
OptTerm(r) == IF r = NONE_REG THEN "" ELSE RegText(r) \o " + "
Count(toks, t) == Cardinality({k \in DOMAIN toks : toks[k] = t})

\* the definitions whose opcode is the byte at the analysed address
Matching == {k \in DOMAIN instruction_class_list :
                instruction_class_list[k].opcode = stream[insn.ea + 1]}
FirstMatching == CHOOSE k \in Matching : \A j \in Matching : k <= j

\* the tokens out_mnem writes: the mnemonic and its padding
MnemTokens(i) ==
    <<DefOf(i).name, IF Len(DefOf(i).name) < 8
                     THEN Spaces(8 - Len(DefOf(i).name)) ELSE " ">>

\* the tokens of a DirectAddress operand
DirectTokens(o) ==
    IF o.addr \in named
    THEN <<"loc_" \o Hex(o.addr)>>
    ELSE <<"<COLOR_ERROR>", Hex(o.addr), "</COLOR_ERROR>">>

OperandDone(type) ==
    done = {"operand"} /\ Len(rendered) = 1 /\ rendered[1].type = type

----------------------------------------------------------------------------
(* C1: for a jump-class instruction (whatever its other flags), notify_emu *)
(* emits the jump edge to operand 1's address first; that is the only edge *)
(* when the mnemonic is "jmp" or "vm_jmp", and otherwise exactly one flow  *)
(* edge to ea + size follows it.                                           *)
C1_JumpEdges ==
    ("emu" \in done /\ HasFlag(DefOf(insn).feature, CF_JUMP)) =>
        crefs = IF DefOf(insn).name \in {"jmp", "vm_jmp"}
                THEN <<JumpEdge(insn)>>
                ELSE <<JumpEdge(insn), FlowEdge(insn)>>

C1_Witness ==
    /\ "emu" \in done
    /\ DefOf(insn).name = "vm_jmp"
    /\ HasFlag(DefOf(insn).feature, CF_JUMP)
    /\ HasFlag(DefOf(insn).feature, CF_STOP)
    /\ insn.size = 2
    /\ crefs = <<[from |-> 1, to |-> 16, type |-> fl_JN]>>

(* C2: for an instruction that is neither jump-class nor stop-class,       *)
(* notify_emu emits exactly one edge, the flow edge to ea + size, whatever *)
(* the mnemonic.                                                           *)
C2_FlowOnly ==
    ("emu" \in done /\ ~HasFlag(DefOf(insn).feature, CF_JUMP)
                    /\ ~HasFlag(DefOf(insn).feature, CF_STOP)) =>
        crefs = <<FlowEdge(insn)>>

C2_Witness ==
    /\ "emu" \in done
    /\ DefOf(insn).name = "jmp"
    /\ ~HasFlag(DefOf(insn).feature, CF_JUMP)
    /\ ~HasFlag(DefOf(insn).feature, CF_STOP)
    /\ insn.ops[1] = NearOp(16)
    /\ crefs = <<[from |-> 1, to |-> 3, type |-> fl_F]>>

(* C3: for a stop-class instruction that is not jump-class, notify_emu     *)
(* emits no edge and returns True.                                         *)
C3_StopNoEdges ==
    ("emu" \in done /\ HasFlag(DefOf(insn).feature, CF_STOP)
                    /\ ~HasFlag(DefOf(insn).feature, CF_JUMP)) =>
        (crefs = <<>> /\ emuRet = TRUE)

C3_Witness ==
    /\ "emu" \in done
    /\ DefOf(insn).feature = CF_STOP
    /\ DefOf(insn).name = "jz"
    /\ crefs = <<>>
    /\ emuRet = TRUE

(* C4: notify_ana decodes with the first definition, in table order, whose *)
(* opcode is the byte at the address: itype is its index and the return    *)
(* value its size; it returns False exactly when no definition matches.    *)
C4_FirstMatch ==
    "ana" \in done =>
        IF Matching = {}
        THEN anaRet = 0
        ELSE /\ anaRet = instruction_class_list[FirstMatching].size
             /\ anaRet # 0
             /\ insn.itype = FirstMatching - 1
             /\ insn.size = instruction_class_list[FirstMatching].size

C4_Witness ==
    /\ "ana" \in done
    /\ Len(instruction_class_list) = 2
    /\ instruction_class_list[1].opcode = instruction_class_list[2].opcode
    /\ instruction_class_list[1].size = 1
    /\ instruction_class_list[2].size = 2
    /\ insn.itype = 0
    /\ anaRet = 1

(* C5, as stated: notify_ana never succeeds with an instruction whose      *)
(* ea + size lies past the end of the stream.                              *)
C5_NeverPastEnd ==
    ("ana" \in done /\ anaRet # 0) => insn.ea + insn.size <= Len(stream)

(* C5, amended: notify_ana makes no bounds check; when the opcode byte     *)
(* matches a definition whose size runs past the end of the stream it      *)
(* still succeeds, returning that size.                                    *)
C5_TruncatedDecodes ==
    ("ana" \in done /\ Matching # {}
        /\ insn.ea + instruction_class_list[FirstMatching].size > Len(stream)) =>
        (anaRet = instruction_class_list[FirstMatching].size /\ anaRet = insn.size)

C5_Witness ==
    /\ "ana" \in done
    /\ Len(stream) = 1
    /\ insn.ea = 0
    /\ anaRet = 2
    /\ insn.size = 2

(* C6, as stated: notify_out_insn emits the mnemonic, operand 1 iff        *)
(* CF_USE1 is set, and ", " with operand 2 only when CF_USE2 is set as     *)
(* well as CF_USE1; ", " never appears without operand 1 before it.        *)
C6_SeparatorNeedsOperand1 ==
    "out" \in done =>
        LET ft == DefOf(insn).feature
            first == IF HasFlag(ft, CF_USE1) THEN <<insn.ops[1]>> ELSE <<>>
            second == IF HasFlag(ft, CF_USE1) /\ HasFlag(ft, CF_USE2)
                      THEN <<insn.ops[2]>> ELSE <<>>
        IN  /\ rendered = first \o second
            /\ Count(line, ", ") = Len(second)
            /\ (Count(line, ", ") > 0 => HasFlag(ft, CF_USE1))

(* C7: an o_idpspec0 operand is rendered as the size prefix of its dtyp,   *)
(* "[", reg1 and " + ", each of reg2, reg3, reg4 with " + " iff the slot   *)
(* is not NONE_REG, the offset in hexadecimal and "]"; the " + " count is  *)
(* the number of non-sentinel slots.                                       *)
C7_MultiBaseSum ==
    OperandDone(o_idpspec0) =>
        LET o == rendered[1]
            prefix == IF o.dtyp = dt_byte THEN "byte ptr "
                      ELSE IF o.dtyp = dt_word THEN "word ptr "
                      ELSE IF o.dtyp = dt_dword THEN "dword ptr "
                      ELSE ""
            slots == <<o.specflag1, o.specflag2, o.specflag3, o.specflag4>>
        IN  /\ Text(outbuf) = prefix \o "[" \o RegText(o.specflag1) \o " + "
                              \o OptTerm(o.specflag2) \o OptTerm(o.specflag3)
                              \o OptTerm(o.specflag4) \o Hex(o.value) \o "]"
            /\ Count(outbuf, " + ") =
                   Cardinality({k \in 1..4 : slots[k] # NONE_REG})
            /\ (o = SumOp(dt_byte, 1, NONE_REG, NONE_REG, NONE_REG, 16) =>
                   Text(outbuf) = "byte ptr [R1 + 10]")

C7_Witness ==
    /\ OperandDone(o_idpspec0)
    /\ rendered[1] = SumOp(dt_byte, 1, NONE_REG, NONE_REG, NONE_REG, 16)
    /\ Text(outbuf) = "byte ptr [R1 + 10]"

(* C8: an o_displ operand is rendered as "[", the base register, " + ",    *)
(* the index register with " + " iff the index slot is not NONE_REG, the   *)
(* offset in hexadecimal and "]"; NONE_REG never indexes reg_names.        *)
C8_Displacement ==
    OperandDone(o_displ) =>
        LET o == rendered[1]
        IN  /\ Text(outbuf) = "[" \o RegText(o.reg) \o " + " \o OptTerm(o.value)
                              \o Hex(o.addr) \o "]"
            /\ Count(outbuf, " + ") = IF o.value = NONE_REG THEN 1 ELSE 2
            /\ NONE_REG \notin regLookups
            /\ (o = DisplOp(1, NONE_REG, 16) => Text(outbuf) = "[R1 + 10]")

C8_Witness ==
    /\ OperandDone(o_displ)
    /\ rendered[1] = DisplOp(1, NONE_REG, 16)
    /\ Text(outbuf) = "[R1 + 10]"
    /\ regLookups = {1}

(* C9: an o_near / o_mem operand in slot 1 is rendered as its name alone   *)
(* when the host resolves it, and otherwise as the address in hexadecimal  *)
(* between an opening and a closing error-colour tag; notify_out_operand   *)
(* returns True either way and notify_out_insn goes on with ", " and       *)
(* operand 2.                                                              *)
C9_DirectAddress ==
    ("out" \in done /\ HasFlag(DefOf(insn).feature, CF_USE1)
                    /\ insn.ops[1].type \in {o_near, o_mem}) =>
        /\ outRets[1] = TRUE
        /\ line = MnemTokens(insn) \o DirectTokens(insn.ops[1])
                  \o (IF HasFlag(DefOf(insn).feature, CF_USE2)
                      THEN <<", ">> \o notify_out_operand(EmptyCtx, insn.ops[2]).buf
                      ELSE <<>>)
        /\ (HasFlag(DefOf(insn).feature, CF_USE2) =>
               rendered = <<insn.ops[1], insn.ops[2]>>)

C9_Witness ==
    /\ "out" \in done
    /\ named = {}
    /\ insn.ops = <<NearOp(16), ImmOp(5)>>
    /\ outRets = <<TRUE, TRUE>>
    /\ Text(line) = "jz      <COLOR_ERROR>10</COLOR_ERROR>, 5"

(* C10: the (name, feature) table and the index -> definition map agree:   *)
(* they have the same length, instruc_end, entry i of one is the name and  *)
(* feature of entry i of the other, and the itype notify_ana assigns       *)
(* names, in both, the definition whose opcode was read.                   *)
C10_TablesAgree ==
    /\ Len(instruc) = instruc_end
    /\ DOMAIN instructions = 0..(instruc_end - 1)
    /\ \A i \in DOMAIN instructions :
           /\ instruc[i + 1].name = instructions[i].name
           /\ instruc[i + 1].feature = instructions[i].feature
           /\ instructions[i] = instruction_class_list[i + 1]
    /\ ("ana" \in done /\ anaRet # 0) =>
           /\ instructions[insn.itype].opcode = stream[insn.ea + 1]
           /\ instruc[insn.itype + 1].name = instructions[insn.itype].name
           /\ anaRet = instructions[insn.itype].size

C10_Witness ==
    /\ "ana" \in done
    /\ anaRet # 0
    /\ insn.itype = 1
    /\ instruc[1].name # instruc[2].name
    /\ instruc[2].name = instructions[1].name

====
